---------------------------- MODULE Spec2Model ----------------------------
(***************************************************************************)
(* MCC 118 channel-4 ring buffer logger (channel4_ringbuffer_logger.c).    *)
(*                                                                         *)
(* Several specifications over one set of variables:                       *)
(*   SpecRB  the RingBuffer alone, driven by a writer and a reader thread  *)
(*           with arbitrary byte lengths (ring_buffer_write,               *)
(*           ring_buffer_read, ring_buffer_available, producer_done);      *)
(*   Spec    the whole process: main, control, producer and consumer       *)
(*           threads, the sample source, the output directory;             *)
(*   SpecSeq, SpecOne, SpecRate, SpecLabel, SpecChunk, SpecAcq, SpecCtl,   *)
(*   SpecLock, SpecLives: the process in one scenario each (the commands   *)
(*           the operator sends, what the environment may do), described   *)
(*           where they are defined.                                       *)
(*                                                                         *)
(* A byte of the sample stream is modelled by its 1-based position in the  *)
(* stream of all bytes ever handed to ring_buffer_write, so that loss,     *)
(* reordering and duplication are all visible.  0 is a byte of the malloc  *)
(* block that was never written.  Rates are fixed-point, in 1/100 Hz.      *)
(***************************************************************************)
EXTENDS Integers, Sequences, FiniteSets, TLC

\* ------------------------------------------------------------------ bounds
\* capacity of the RingBuffer of SpecRB, in bytes
RBCap == 4
\* total number of bytes the writer of SpecRB hands to ring_buffer_write
MaxBytes == 9
\* capacity of the RingBuffer of the process, in samples
RingSamples == 2
\* largest batch one mcc118_a_in_scan_read returns, in samples
MaxBatch == 2
\* samples the source yields in one process lifetime
MaxSamples == 2
\* commands the operator sends in one process lifetime
MaxCmds == 2
\* failures of the environment (source, file system) in one lifetime
MaxFaults == 1
\* samples, commands and failures in SpecSeq
SeqSamples == 3
SeqCmds == 1
SeqFaults == 1
\* samples and failures in SpecOne
OneSamples == 3
OneFaults == 1
\* samples, commands and failures in SpecRate
RateSamples == 3
RateCmds == 1
RateFaults == 1
\* samples, commands and failures in SpecAcq
AcqSamples == 1
AcqCmds == 2
AcqFaults == 1
\* commands and failures in SpecCtl
CtlCmds == 2
CtlFaults == 1
\* samples, commands and failures in SpecLabel
LabelSamples == 2
LabelCmds == 1
LabelFaults == 1
\* samples, failures and write_chunk_file calls in SpecChunk
ChunkSamples == 2
ChunkFaults == 1
ChunkCalls == 3
\* samples, commands and failures in SpecLock
LockSamples == 1
LockCmds == 1
LockFaults == 1
\* samples, commands and failures per lifetime in SpecLives
LivesSamples == 1
LivesCmds == 2
LivesFaults == 1
\* process lifetimes in SpecLives
MaxLives == 2
\* boot identities /dev/urandom can yield: 1..MaxBootId
MaxBootId == 2

\* ------------------------------------------------------ program constants
\* rates are fixed-point numbers with the two decimals "%.2f" prints
RateScale == 100
DEFAULT_SCAN_RATE_HZ == 120 * RateScale
CHUNK_DURATION_SEC == 2
RECORD_SIZE == 8
\* RING_BUFFER_SIZE is 4 MB in the program: scaled to RingSamples samples
RING_BUFFER_SIZE == RingSamples * RECORD_SIZE
VERSION == 1
\* "Reasonable limits" of SET_RATE: 100000 Hz
MAX_RATE == 100000 * RateScale

VARIABLES
    rb,          \* g_ring_buffer: ring_buffer_t
    wcount,      \* ghost: number of bytes ever passed to ring_buffer_write
    readLog,     \* ghost: concatenation of everything ring_buffer_read returned
    runStart,    \* ghost: wcount when a read last left the buffer empty (0 at
                 \*        start), -1 after a read that left data behind
    lastOp,      \* ghost: the last RingBuffer operation and what it returned
    rd,          \* reader thread of SpecRB: position inside ring_buffer_read
    g_running,          \* g_running
    g_capture_enabled,  \* g_capture_enabled
    g_scan_rate,        \* g_scan_rate, in 1/RateScale Hz
    g_seq_counter,      \* g_seq_counter
    g_boot_id,          \* g_boot_id
    g_state_mutex,      \* owner of g_state_mutex: "none" or a thread
    g_socket,           \* g_socket_fd: "open" or "closed"
    mainpc,      \* main thread: "sigwait", "disable", "join", "done"
    ctl,         \* control_thread: position, command in hand, last reply
    prod,        \* producer_thread: position and locals
    src,         \* the MCC 118 scan: running or not, and its rate
    cons,        \* consumer_thread: position and locals
    files,       \* the output directory: file name -> content
    commits,     \* ghost: the chunks write_chunk_file committed (returned 0)
    life,        \* ghost: number of this process lifetime, from 1
    budget       \* what the environment may still do in this lifetime

\* readLog, runStart, lastOp and rd belong to SpecRB and rest in Spec
rbghost == <<readLog, runStart, lastOp, rd>>
rbvars == <<rb, wcount, rbghost>>
globals == <<g_running, g_capture_enabled, g_scan_rate, g_seq_counter,
             g_boot_id, g_state_mutex, g_socket>>
threads == <<mainpc, ctl, prod, src, cons>>
disk == <<files, commits>>
pipevars == <<globals, threads, disk, life, budget>>
vars == <<rbvars, pipevars>>

\* ------------------------------------------------------------- ring buffer
Min(a, b) == IF a < b THEN a ELSE b

\* init_ring_buffer (the malloc block is modelled as never-written bytes, 0)
init_ring_buffer(size) ==
    [buffer |-> [i \in 0..(size - 1) |-> 0],
     size |-> size,
     write_pos |-> 0,
     read_pos |-> 0,
     available |-> 0,
     producer_done |-> FALSE,
     consumer_done |-> FALSE]

\* the bytes of the stream at positions from+1 .. from+len
StreamBytes(from, len) == [i \in 1..len |-> from + i]

\* drop_bytes of ring_buffer_write: how many unread bytes a write evicts
drop_bytes_mut(r, len) == 0
drop_bytes(r, len) ==
    LET free_space == r.size - r.available
    IN  IF free_space < len THEN len - free_space ELSE 0

\* the read cursor after the eviction of d bytes
evict_read_pos_mut(r, d) == r.read_pos
evict_read_pos(r, d) == (r.read_pos + d) % r.size

\* the two memcpy calls of ring_buffer_write
write_copy_mut(r, data, write_len) ==
    [i \in 0..(r.size - 1) |->
        IF i >= r.write_pos /\ i < r.write_pos + write_len
        THEN data[i - r.write_pos + 1]
        ELSE r.buffer[i]]
write_copy(r, data, write_len) ==
    LET first_part == IF r.write_pos + write_len <= r.size
                      THEN write_len ELSE r.size - r.write_pos
    IN  [i \in 0..(r.size - 1) |->
            IF i >= r.write_pos /\ i < r.write_pos + first_part
            THEN data[i - r.write_pos + 1]
            ELSE IF write_len > first_part /\ i < write_len - first_part
                 THEN data[first_part + i + 1]
                 ELSE r.buffer[i]]

\* ring_buffer_write: the ring afterwards and the value returned
ring_buffer_write(r, data) ==
    LET len == Len(data)
        drop == drop_bytes(r, len)
        r1 == IF drop > 0
              THEN [r EXCEPT !.read_pos = evict_read_pos(r, drop),
                             !.available = r.available - drop]
              ELSE r
        free_space == r1.size - r1.available
        write_len == Min(len, free_space)
        r2 == IF write_len > 0
              THEN [r1 EXCEPT !.buffer = write_copy(r1, data, write_len),
                              !.write_pos = (r1.write_pos + write_len) % r1.size,
                              !.available = r1.available + write_len]
              ELSE r1
    IN  [rb |-> r2, ret |-> write_len, dropped |-> drop]

\* the loop condition of ring_buffer_read: the caller waits on not_empty
read_must_wait_mut(r) == r.available = 0
read_must_wait(r) == r.available = 0 /\ ~r.producer_done

\* the two memcpy calls of ring_buffer_read
read_copy(r, read_len) ==
    LET first_part == IF r.read_pos + read_len <= r.size
                      THEN read_len ELSE r.size - r.read_pos
    IN  [i \in 1..read_len |->
            IF i <= first_part
            THEN r.buffer[r.read_pos + i - 1]
            ELSE r.buffer[i - first_part - 1]]

\* read_len of ring_buffer_read
read_len_mut(r, len) == len
read_len_of(r, len) == Min(len, r.available)

\* ring_buffer_read once the wait loop is left
ring_buffer_read(r, len) ==
    IF r.available = 0
    THEN [rb |-> r, ret |-> 0, data |-> <<>>]
    ELSE LET read_len == read_len_of(r, len)
         IN  [rb |-> [r EXCEPT !.read_pos = (r.read_pos + read_len) % r.size,
                               !.available = r.available - read_len],
              ret |-> read_len,
              data |-> read_copy(r, read_len)]

\* ring_buffer_available
ring_buffer_available(r) == r.available

\* the unread content: available bytes from the read cursor
Unread(r) == [i \in 1..r.available |-> r.buffer[(r.read_pos + i - 1) % r.size]]

\* ghost bookkeeping shared by both specifications
RunAfterRead(x, wc) == IF x.rb.available = 0 THEN wc ELSE -1

NoOp == [op |-> "none"]
WriteOp(r, len, w) ==
    [op |-> "write", len |-> len, ret |-> w.ret, dropped |-> w.dropped,
     availBefore |-> r.available, readPosBefore |-> r.read_pos,
     unreadBefore |-> Unread(r)]
ReadOp(r, len, x, run, wc, waited, wAtCall) ==
    [op |-> "read", len |-> len, ret |-> x.ret, data |-> x.data,
     availBefore |-> r.available, doneBefore |-> r.producer_done,
     runBefore |-> run, wcountBefore |-> wc, waited |-> waited,
     wAtCall |-> wAtCall]

\* ----------------------------------------------------------- process start
\* the locals of the three threads when they are created
\* (prev, before: the last two commands handled, ghost; warning: what the
\* producer logged about its last ring_buffer_write, <<>> for nothing, <<k>>
\* for "Ring buffer overflow, dropped k bytes"; calls: the number of
\* write_chunk_file calls so far, ghost; discarded: the bytes that were in
\* the chunk buffer when it was freed for a new rate, ghost)
ctl_start == [pc |-> "select", line |-> <<>>, cmd |-> "", arg |-> <<>>,
              prev |-> <<>>, before |-> <<>>, reply |-> <<>>]
prod_start == [pc |-> "top", should_capture |-> FALSE,
               requested_rate |-> DEFAULT_SCAN_RATE_HZ,
               scan_active |-> FALSE,
               current_rate |-> DEFAULT_SCAN_RATE_HZ,
               warning |-> <<>>]
cons_start == [pc |-> "top", should_capture |-> FALSE,
               requested_rate |-> DEFAULT_SCAN_RATE_HZ,
               current_rate |-> DEFAULT_SCAN_RATE_HZ,
               samples_per_chunk |-> 0,
               has_buffer |-> FALSE, chunk_buffer |-> <<>>,
               samples_collected |-> 0,
               final |-> FALSE, seq_start |-> 0, sample_count |-> 0,
               calls |-> 0, discarded |-> {}]
\* the source: whether a scan is running, the rate of the last scan started,
\* whether that scan was started right after a stop for a rate change
\* (ghost), whether a read from it has failed (ghost), and the rate at which
\* each sample it delivered was acquired (ghost, kept in SpecLabel only)
src_start == [running |-> FALSE, rate |-> 0, restart |-> FALSE,
              failed |-> FALSE, log |-> <<>>]

\* main up to "=== Ready ===": globals, boot id, ring buffer, threads
ProcessStart(boot, size, n, bud) ==
    /\ rb = init_ring_buffer(size)
    /\ wcount = 0
    /\ readLog = <<>>
    /\ runStart = 0
    /\ lastOp = NoOp
    /\ rd = [pc |-> "idle", len |-> 0, wAtCall |-> 0]
    /\ g_running = TRUE
    /\ g_capture_enabled = FALSE
    /\ g_scan_rate = DEFAULT_SCAN_RATE_HZ
    /\ g_seq_counter = 0
    /\ g_boot_id = boot
    /\ g_state_mutex = "none"
    /\ g_socket = "open"
    /\ mainpc = "sigwait"
    /\ ctl = ctl_start
    /\ prod = prod_start
    /\ src = src_start
    /\ cons = cons_start
    /\ life = n
    /\ budget = bud

\* ------------------------------------------------------------------ SpecRB
\* the RingBuffer on its own: no thread of the process runs
InitRB ==
    /\ ProcessStart(1, RBCap, 1,
                    [cmds |-> 0, commands |-> {}, faults |-> 0, samples |-> 0,
                     lives |-> 0])
    /\ files = <<>>
    /\ commits = <<>>

\* the writer thread calls ring_buffer_write with len bytes (len <= capacity);
\* like producer_thread it writes only before it sets producer_done
RBWrite(len) ==
    /\ ~rb.producer_done
    /\ wcount + len <= MaxBytes
    /\ LET w == ring_buffer_write(rb, StreamBytes(wcount, len))
       IN  /\ rb' = w.rb
           /\ wcount' = wcount + len
           /\ runStart' = runStart
           /\ lastOp' = WriteOp(rb, len, w)
    /\ UNCHANGED <<readLog, rd, pipevars>>

\* the end of producer_thread: producer_done = true, signal not_empty
RBMarkProducerDone ==
    /\ ~rb.producer_done
    /\ rb' = [rb EXCEPT !.producer_done = TRUE]
    /\ lastOp' = [op |-> "done"]
    /\ UNCHANGED <<wcount, readLog, runStart, rd, pipevars>>

\* ring_buffer_available called by either thread
RBAvailable ==
    /\ lastOp # [op |-> "available", ret |-> ring_buffer_available(rb)]
    /\ lastOp' = [op |-> "available", ret |-> ring_buffer_available(rb)]
    /\ UNCHANGED <<rb, wcount, readLog, runStart, rd, pipevars>>

\* what a read that leaves the wait loop does to the state
ReadCompletes(len, waited, wAtCall) ==
    LET x == ring_buffer_read(rb, len)
    IN  /\ rb' = x.rb
        /\ readLog' = readLog \o x.data
        /\ runStart' = IF x.ret = 0 THEN runStart ELSE RunAfterRead(x, wcount)
        /\ lastOp' = ReadOp(rb, len, x, runStart, wcount, waited, wAtCall)
        /\ UNCHANGED wcount

\* the reader thread calls ring_buffer_read(len): it either goes to sleep on
\* not_empty (releasing the mutex) or completes the read at once
RBReadCall(len) ==
    /\ rd.pc = "idle"
    /\ IF read_must_wait(rb)
       THEN /\ rd' = [pc |-> "wait", len |-> len, wAtCall |-> wcount]
            /\ UNCHANGED <<rb, wcount, readLog, runStart, lastOp>>
       ELSE /\ rd' = [pc |-> "idle", len |-> len, wAtCall |-> wcount]
            /\ ReadCompletes(len, FALSE, wcount)
    /\ UNCHANGED pipevars

\* the sleeping reader is woken (signal or spurious), re-takes the mutex and
\* finds the loop condition false
RBReadWake ==
    /\ rd.pc = "wait"
    /\ ~read_must_wait(rb)
    /\ rd' = [rd EXCEPT !.pc = "idle"]
    /\ ReadCompletes(rd.len, TRUE, rd.wAtCall)
    /\ UNCHANGED pipevars

NextRB ==
    \/ \E len \in 0..RBCap : RBWrite(len)
    \/ RBMarkProducerDone
    \/ RBAvailable
    \/ \E len \in 0..(RBCap + 1) : RBReadCall(len)
    \/ RBReadWake

SpecRB == InitRB /\ [][NextRB]_vars

\* ------------------------------------------------------- claims on SpecRB
IsIncreasing(s) == \A i \in 1..(Len(s) - 1) : s[i] < s[i + 1]

\* C1: FIFO without overflow.  A read that follows writes made since the
\* buffer was last empty (no read in between), whose total length is at most
\* the capacity, and that asks for at least that total, returns exactly the
\* written bytes in write order.
C1_FifoNoOverflow ==
    (/\ lastOp.op = "read"
     /\ lastOp.runBefore >= 0
     /\ lastOp.wcountBefore - lastOp.runBefore <= rb.size
     /\ lastOp.len >= lastOp.wcountBefore - lastOp.runBefore)
    => LET total == lastOp.wcountBefore - lastOp.runBefore
       IN  /\ lastOp.ret = total
           /\ lastOp.data = StreamBytes(lastOp.runBefore, total)

\* C1 witness: two or more writes from an empty buffer whose cursors are not
\* at 0, read back in one call across the wrap-around
C1_Witness ==
    /\ lastOp.op = "read"
    /\ lastOp.runBefore > 0
    /\ lastOp.runBefore % rb.size # 0
    /\ lastOp.ret = lastOp.wcountBefore - lastOp.runBefore
    /\ lastOp.ret >= 3
    /\ lastOp.data[1] % rb.size > lastOp.data[lastOp.ret] % rb.size

\* C2: drop-oldest overflow.  A write of len <= capacity returns len; when it
\* exceeds the free space by k, exactly the k oldest unread bytes go (read
\* cursor advanced by k) and available = capacity afterwards; otherwise
\* nothing is evicted and available grows by len.
C2_DropOldest ==
    (lastOp.op = "write" /\ lastOp.len <= rb.size)
    => LET free == rb.size - lastOp.availBefore
           k == lastOp.len - free
           old == lastOp.unreadBefore
           new == StreamBytes(wcount - lastOp.len, lastOp.len)
       IN  /\ lastOp.ret = lastOp.len
           /\ IF free < lastOp.len
              THEN /\ rb.read_pos = (lastOp.readPosBefore + k) % rb.size
                   /\ rb.available = rb.size
                   /\ Unread(rb) = SubSeq(old, k + 1, Len(old)) \o new
              ELSE /\ rb.read_pos = lastOp.readPosBefore
                   /\ rb.available = lastOp.availBefore + lastOp.len
                   /\ Unread(rb) = old \o new

\* C2 witness: a write that evicts some, not all, of the unread bytes
C2_Witness ==
    /\ lastOp.op = "write"
    /\ lastOp.dropped > 0
    /\ lastOp.dropped < lastOp.availBefore
    /\ lastOp.len < rb.size

\* C3: data-model invariant.  0 <= available <= capacity and both cursors
\* are indices in 0..capacity-1, in every reachable state.
C3_RingInvariant ==
    /\ rb.available \in 0..rb.size
    /\ rb.read_pos \in 0..(rb.size - 1)
    /\ rb.write_pos \in 0..(rb.size - 1)

\* C3 witness: a full buffer after more than one lap, both cursors wrapped,
\* the producer done and a read behind it
C3_Witness ==
    /\ rb.available = rb.size
    /\ wcount > 2 * rb.size
    /\ rb.producer_done
    /\ Len(readLog) > 0
    /\ rb.read_pos # 0

\* C4: order preservation under eviction.  The unread content is the
\* contiguous tail of the written stream, and everything read so far is an
\* increasing (in order, no duplicate) selection of the written stream that
\* lies before the unread content.
C4_OrderPreserved ==
    /\ Unread(rb) = StreamBytes(wcount - rb.available, rb.available)
    /\ IsIncreasing(readLog)
    /\ \A i \in 1..Len(readLog) :
          readLog[i] >= 1 /\ readLog[i] <= wcount - rb.available

\* C4 witness: bytes were evicted between two reads (a gap in what was read)
\* and unread data remains
C4_Witness ==
    /\ rb.available > 0
    /\ \E i \in 1..(Len(readLog) - 1) : readLog[i + 1] > readLog[i] + 1
    /\ lastOp.op = "read"

\* C5: blocking read and end-of-stream.  A read never returns from an empty
\* buffer whose producer_done is unset, a read that slept returns only after
\* a write or after producer_done; on an empty buffer with producer_done set
\* a read returns 0, no read goes to sleep, and that state is permanent.
C5_ReadReturn ==
    lastOp.op = "read"
    => /\ lastOp.availBefore > 0 \/ lastOp.doneBefore
       /\ lastOp.waited
            => lastOp.wcountBefore > lastOp.wAtCall \/ lastOp.doneBefore
       /\ (lastOp.doneBefore /\ lastOp.availBefore = 0) => lastOp.ret = 0
       /\ lastOp.ret = 0
            => (lastOp.doneBefore /\ lastOp.availBefore = 0) \/ lastOp.len = 0
C5_EndOfStreamStep ==
    (rb.producer_done /\ rb.available = 0)
    => /\ rb'.producer_done /\ rb'.available = 0
       /\ rd.pc = "idle" => rd'.pc = "idle"
C5_BlockingRead == []C5_ReadReturn /\ [][C5_EndOfStreamStep]_vars

\* C5 witness: a read that slept on the empty buffer and was released by
\* producer_done, returning 0
C5_Witness ==
    /\ lastOp.op = "read"
    /\ lastOp.waited
    /\ lastOp.ret = 0
    /\ lastOp.len > 0
    /\ lastOp.wcountBefore = lastOp.wAtCall
    /\ rd.pc = "idle"

\* ------------------------------------------------------------ control plane
\* the commands an operator sends, after handle_command has trimmed the line,
\* split it at the first space and upper-cased the keyword; the argument of
\* SET_RATE is <<>> when absent, else <<what atof makes of it>> (in
\* 1/RateScale Hz)
RateArgs == {<<>>, <<-5 * RateScale>>, <<0>>, <<RateScale \div 2>>, <<RateScale>>,
             <<250 * RateScale>>, <<MAX_RATE + 1>>}
Commands ==
    {<<k, <<>> >> : k \in {"START", "STOP", "STATUS", "RESET"}}
      \cup {<<"SET_RATE", a>> : a \in RateArgs}
\* the commands the operator of each specification uses
Cmd(k) == <<k, <<>> >>
SetRate(hundredths) == <<"SET_RATE", <<hundredths>> >>
SpecCommands ==
    {Cmd("START"), Cmd("STOP"), Cmd("STATUS"), <<"SET_RATE", <<>> >>,
     SetRate(RateScale \div 2), SetRate(250 * RateScale)}
SeqCommands == {SetRate(RateScale)}
LivesCommands == {Cmd("START"), SetRate(RateScale \div 2)}

\* the keyword of a command line as the client typed it: its ASCII codes
Keywords == {"START", "STOP", "STATUS", "SET_RATE", "RESET"}
Codes(k) ==
    CASE k = "START" -> <<83, 84, 65, 82, 84>>
      [] k = "STOP" -> <<83, 84, 79, 80>>
      [] k = "STATUS" -> <<83, 84, 65, 84, 85, 83>>
      [] k = "SET_RATE" -> <<83, 69, 84, 95, 82, 65, 84, 69>>
      [] k = "RESET" -> <<82, 69, 83, 69, 84>>

\* "Convert command to uppercase": 'a'..'z' become 'A'..'Z'
to_upper(codes) ==
    [i \in DOMAIN codes |->
        IF codes[i] >= 97 /\ codes[i] <= 122 THEN codes[i] - 97 + 65
        ELSE codes[i]]

\* the keyword the strcmp chain of handle_command sees
keyword_of(codes) ==
    IF \E k \in Keywords : Codes(k) = codes
    THEN CHOOSE k \in Keywords : Codes(k) = codes
    ELSE "?"

\* handle_command up to the lock: the line is split at the first space (done
\* by the client here: line = <<keyword as typed, argument>>) and the keyword
\* is upper-cased
parse_command(line) == <<keyword_of(to_upper(line[1])), line[2]>>

\* lines a client types: each keyword in upper case, in lower case and
\* capitalised, with the arguments of RateArgs for SET_RATE
Lower(codes) ==
    [i \in DOMAIN codes |->
        IF codes[i] >= 65 /\ codes[i] <= 90 THEN codes[i] + 32 ELSE codes[i]]
Capitalised(codes) ==
    [i \in DOMAIN codes |-> IF i = 1 THEN codes[i] ELSE Lower(codes)[i]]
Typed(k) == {Codes(k), Lower(Codes(k)), Capitalised(Codes(k))}
CtlLines ==
    {<<t, <<>> >> : t \in UNION {Typed(k) : k \in Keywords \ {"SET_RATE"}}}
      \cup {<<t, a>> : t \in Typed("SET_RATE"), a \in RateArgs}

\* "%.2f" of a non-negative rate: integer part and two decimals
Fmt2(rate) == <<rate \div RateScale, rate % RateScale>>

\* the range check of SET_RATE
rate_ok_mut(new_rate) == new_rate > 0
rate_ok(new_rate) == new_rate > 0 /\ new_rate <= MAX_RATE

\* the value SET_RATE stores
set_rate_value(new_rate) == new_rate

\* the message send_status formats
status_msg(capturing, rate, available_bytes, seq) ==
    [text |-> <<"STATUS: capture=", IF capturing THEN "ON" ELSE "OFF",
                ", rate=", Fmt2(rate), " Hz, buffer_samples=",
                available_bytes \div RECORD_SIZE,
                ", seq_counter=", seq, "\n">>,
     sent |-> <<>>]

\* send(client_fd, text, n, 0) of a reply: the bytes of the text that do not
\* go out (n < strlen) and the bytes that go out after the text (n > strlen:
\* the terminating NUL and what lies behind the literal).  sent = <<>> stands
\* for n = strlen(text)
bytes_missing(reply) ==
    IF reply.sent = <<>> \/ reply.sent[1] >= Len(reply.text[1]) THEN 0
    ELSE Len(reply.text[1]) - reply.sent[1]
bytes_extra(reply) ==
    IF reply.sent = <<>> \/ reply.sent[1] <= Len(reply.text[1]) THEN 0
    ELSE reply.sent[1] - Len(reply.text[1])

\* control_thread: select/accept/recv deliver one command while the process
\* runs and the socket is open; handle_command parses it and locks
\* g_state_mutex
Ctl_Recv(line) ==
    /\ ctl.pc = "select"
    /\ g_running
    /\ g_socket = "open"
    /\ budget.cmds > 0
    /\ parse_command(line) \in budget.commands
    /\ g_state_mutex = "none"
    /\ g_state_mutex' = "control"
    /\ LET c == parse_command(line)
       IN  ctl' = [ctl EXCEPT !.pc = "locked", !.line = line[1],
                              !.cmd = c[1], !.arg = c[2]]
    /\ budget' = [budget EXCEPT !.cmds = @ - 1]
    /\ UNCHANGED <<rbvars, g_running, g_capture_enabled, g_scan_rate,
                   g_seq_counter, g_boot_id, g_socket, mainpc, prod, src,
                   cons, disk, life>>

\* the same for a command typed in upper case
Ctl_Accept(c) == Ctl_Recv(<<Codes(c[1]), c[2]>>)

\* handle_command, START / STOP / SET_RATE / unknown keyword: the effect, the
\* reply, the unlock; control_thread closes the connection
Ctl_Handle ==
    /\ ctl.pc = "locked"
    /\ ctl.cmd # "STATUS"
    /\ g_capture_enabled' =
          IF ctl.cmd = "START" THEN TRUE
          ELSE IF ctl.cmd = "STOP" THEN FALSE
          ELSE g_capture_enabled
    /\ g_scan_rate' =
          IF ctl.cmd = "SET_RATE" /\ ctl.arg # <<>> /\ rate_ok(ctl.arg[1])
          THEN set_rate_value(ctl.arg[1])
          ELSE g_scan_rate
    /\ LET \* sent: <<n>> for send(.., n, 0), <<>> for send(.., strlen(..), 0)
           reply ==
            IF ctl.cmd = "START"
            THEN [text |-> <<"OK: START\n">>, sent |-> <<9>>]
            ELSE IF ctl.cmd = "STOP"
            THEN [text |-> <<"OK: STOP\n">>, sent |-> <<9>>]
            ELSE IF ctl.cmd = "SET_RATE"
            THEN IF ctl.arg = <<>>
                 THEN [text |-> <<"ERROR: SET_RATE requires a value\n">>,
                       sent |-> <<35>>]
                 ELSE IF rate_ok(ctl.arg[1])
                 THEN [text |-> <<"OK: SET_RATE ", Fmt2(ctl.arg[1]), "\n">>,
                       sent |-> <<>>]
                 ELSE [text |->
                         <<"ERROR: Invalid rate (must be > 0 and <= 100000)\n">>,
                       sent |-> <<50>>]
            ELSE [text |-> <<"ERROR: Unknown command: ", ctl.cmd, "\n">>,
                  sent |-> <<>>]
       IN  ctl' = [ctl EXCEPT !.pc = "select", !.reply = reply,
                              !.prev = <<ctl.cmd, ctl.arg>>,
                              !.before = ctl.prev]
    /\ g_state_mutex' = "none"
    /\ UNCHANGED <<rbvars, g_running, g_seq_counter, g_boot_id, g_socket,
                   mainpc, prod, src, cons, disk, life, budget>>

\* handle_command, STATUS: send_status is called with g_state_mutex held
Ctl_Status ==
    /\ ctl.pc = "locked"
    /\ ctl.cmd = "STATUS"
    /\ ctl' = [ctl EXCEPT !.pc = "send_status"]
    /\ UNCHANGED <<rbvars, globals, mainpc, prod, src, cons, disk, life,
                   budget>>

\* what pthread_mutex_lock does to the thread that already owns the default
\* (non-recursive) mutex: undefined by POSIX.  "deadlock": the thread blocks
\* for ever, the mutex stays locked (what glibc's default mutex does).
\* "proceeds": the lock call returns; send_status reads the state, unlocks,
\* sends, and handle_command's own unlock finds the mutex already unlocked.
RelockOutcomes == {"deadlock", "proceeds"}

\* send_status: ring_buffer_available, then the second lock of g_state_mutex
Ctl_SendStatus(outcome) ==
    /\ ctl.pc = "send_status"
    /\ IF outcome = "deadlock"
       THEN /\ ctl' = [ctl EXCEPT !.pc = "deadlocked"]
            /\ UNCHANGED g_state_mutex
       ELSE /\ ctl' = [ctl EXCEPT !.pc = "select",
                          !.reply = status_msg(g_capture_enabled, g_scan_rate,
                                               ring_buffer_available(rb),
                                               g_seq_counter),
                          !.prev = <<ctl.cmd, ctl.arg>>,
                          !.before = ctl.prev]
            /\ g_state_mutex' = "none"
    /\ UNCHANGED <<rbvars, g_running, g_capture_enabled, g_scan_rate,
                   g_seq_counter, g_boot_id, g_socket, mainpc, prod, src,
                   cons, disk, life, budget>>

\* control_thread leaves its loop once g_running is false
Ctl_Exit ==
    /\ ctl.pc = "select"
    /\ ~g_running
    /\ ctl' = [ctl EXCEPT !.pc = "exit"]
    /\ UNCHANGED <<rbvars, globals, mainpc, prod, src, cons, disk, life,
                   budget>>

\* ------------------------------------------------------------------- main
\* sigwait returns (SIGINT / SIGTERM): g_running = false
Main_Signal ==
    /\ mainpc = "sigwait"
    /\ g_running' = FALSE
    /\ mainpc' = "disable"
    /\ UNCHANGED <<rbvars, g_capture_enabled, g_scan_rate, g_seq_counter,
                   g_boot_id, g_state_mutex, g_socket, ctl, prod, src, cons,
                   disk, life, budget>>

\* g_capture_enabled = false under g_state_mutex, then the socket is closed
Main_Disable ==
    /\ mainpc = "disable"
    /\ g_state_mutex = "none"
    /\ g_capture_enabled' = FALSE
    /\ g_socket' = "closed"
    /\ mainpc' = "join"
    /\ UNCHANGED <<rbvars, g_running, g_scan_rate, g_seq_counter, g_boot_id,
                   g_state_mutex, ctl, prod, src, cons, disk, life, budget>>

\* the three pthread_join calls return; mcc118_close, destroy_ring_buffer
Main_Join ==
    /\ mainpc = "join"
    /\ ctl.pc = "exit" /\ prod.pc = "exit" /\ cons.pc = "exit"
    /\ mainpc' = "done"
    /\ UNCHANGED <<rbvars, globals, ctl, prod, src, cons, disk, life, budget>>

\* --------------------------------------------------------------- producer
\* while (g_running)
Prod_Loop ==
    /\ prod.pc = "top"
    /\ prod' = [prod EXCEPT !.pc = IF g_running THEN "snap" ELSE "final"]
    /\ UNCHANGED <<rbvars, globals, mainpc, ctl, src, cons, disk, life, budget>>

\* the snapshot of {g_capture_enabled, g_scan_rate} under g_state_mutex
Prod_Snapshot ==
    /\ prod.pc = "snap"
    /\ g_state_mutex = "none"
    /\ prod' = [prod EXCEPT !.pc = "body",
                            !.should_capture = g_capture_enabled,
                            !.requested_rate = g_scan_rate]
    /\ UNCHANGED <<rbvars, globals, mainpc, ctl, src, cons, disk, life, budget>>

\* the condition under which the iteration (re)starts the scan
need_start_mut(p) == p.should_capture /\ ~p.scan_active
need_start(p) ==
    p.should_capture /\ (~p.scan_active \/ p.requested_rate # p.current_rate)

\* "Stop scan if disabled": the condition, given scan_active at that point
need_stop_mut(p, active) == FALSE
need_stop(p, active) == ~p.should_capture /\ active

\* a rate change while scanning: mcc118_a_in_scan_stop, _cleanup and
\* scan_active = false before the scan is started again
stop_for_restart_mut(p) == p
stop_for_restart(p) ==
    IF p.scan_active THEN [p EXCEPT !.scan_active = FALSE] ELSE p

\* the source after mcc118_a_in_scan_stop and mcc118_a_in_scan_cleanup
stopped(s) == [s EXCEPT !.running = FALSE]

\* mcc118_a_in_scan_start(.., requested_rate, OPTS_CONTINUOUS) on source s:
\* a source whose scan was not stopped and cleaned up refuses a new scan
\* (RESULT_BUSY); a stopped one starts unless the hardware fails (start_ok)
scan_start_result(s, start_ok) ==
    IF s.running THEN "busy" ELSE IF start_ok THEN "ok" ELSE "failed"

\* ghost: the log of the source after it delivered n more samples
Tracing == "trace" \in DOMAIN budget
delivered(s, n) == s.log \o [i \in 1..n |-> s.rate]

\* the warning the producer logs after ring_buffer_write(.., len) returned
\* bytes_written
overflow_warning(len, bytes_written) ==
    IF bytes_written < len THEN <<len - bytes_written>> ELSE <<>>

\* the rest of one iteration: (re)start or stop of the scan, then
\* mcc118_a_in_scan_read and ring_buffer_write.  start_ok is what the hardware
\* answers to mcc118_a_in_scan_start; read_ok is false for a non-timeout error
\* of the read; read_res is the number of samples read (0 also stands for
\* RESULT_TIMEOUT)
Prod_Body(start_ok, read_ok, read_res) ==
    /\ prod.pc = "body"
    /\ LET starting == need_start(prod)
           stopped_src == stopped(src)
           src0 == IF starting /\ prod.scan_active THEN stopped_src ELSE src
           result == scan_start_result(src0, start_ok)
       IN
       IF starting /\ result # "ok"
       THEN \* start failed: g_capture_enabled is set to false next
            /\ ~start_ok
            /\ read_ok /\ read_res = 0
            /\ IF result = "busy" THEN UNCHANGED budget
               ELSE /\ budget.faults > 0
                    /\ budget' = [budget EXCEPT !.faults = @ - 1]
            /\ src' = src0
            /\ prod' = [prod EXCEPT
                          !.pc = "off_start",
                          !.scan_active = stop_for_restart(prod).scan_active]
            /\ UNCHANGED rbvars
       ELSE /\ start_ok
            /\ LET active1 == IF starting THEN TRUE ELSE prod.scan_active
                   rate1 == IF starting THEN prod.requested_rate
                            ELSE prod.current_rate
                   src1 == IF starting
                           THEN [running |-> TRUE,
                                 rate |-> prod.requested_rate,
                                 restart |-> prod.scan_active,
                                 failed |-> FALSE,
                                 log |-> src.log]
                           ELSE src0
                   stopping == need_stop(prod, active1)
                   active2 == active1 /\ ~stopping
                   src2 == IF stopping THEN stopped_src ELSE src1
               IN
               /\ src' = IF active2 /\ ~read_ok
                         THEN [src2 EXCEPT !.failed = TRUE]
                         ELSE IF active2 /\ Tracing
                         THEN [src2 EXCEPT !.log = delivered(src2, read_res)]
                         ELSE src2
               /\ IF ~active2
                  THEN \* usleep(100000)
                       /\ read_ok /\ read_res = 0
                       /\ prod' = [prod EXCEPT !.pc = "top",
                                     !.scan_active = FALSE,
                                     !.current_rate = rate1]
                       /\ UNCHANGED <<rbvars, budget>>
                  ELSE IF ~read_ok
                  THEN /\ budget.faults > 0
                       /\ read_res = 0
                       /\ budget' = [budget EXCEPT !.faults = @ - 1]
                       /\ prod' = [prod EXCEPT !.pc = "off_read",
                                     !.scan_active = TRUE,
                                     !.current_rate = rate1]
                       /\ UNCHANGED rbvars
                  ELSE /\ wcount + read_res * RECORD_SIZE
                            <= budget.samples * RECORD_SIZE
                       /\ prod' = [prod EXCEPT !.pc = "top",
                                     !.scan_active = TRUE,
                                     !.current_rate = rate1,
                                     !.warning =
                                        IF read_res > 0
                                        THEN overflow_warning(
                                               read_res * RECORD_SIZE,
                                               ring_buffer_write(
                                                 rb, StreamBytes(
                                                   wcount,
                                                   read_res * RECORD_SIZE)).ret)
                                        ELSE @]
                       /\ UNCHANGED budget
                       /\ IF read_res > 0
                          THEN LET len == read_res * RECORD_SIZE
                                   w == ring_buffer_write(
                                            rb, StreamBytes(wcount, len))
                               IN  /\ rb' = w.rb
                                   /\ wcount' = wcount + len
                                   /\ UNCHANGED rbghost
                          ELSE UNCHANGED rbvars
    /\ UNCHANGED <<globals, mainpc, ctl, cons, disk, life>>

\* after a failed start or a failed read: g_capture_enabled = false under
\* g_state_mutex; after a failed read also scan_active = false
Prod_Disable ==
    /\ prod.pc \in {"off_start", "off_read"}
    /\ g_state_mutex = "none"
    /\ g_capture_enabled' = FALSE
    /\ prod' = [prod EXCEPT !.pc = "top",
                            !.scan_active =
                                IF prod.pc = "off_read" THEN FALSE ELSE @]
    /\ UNCHANGED <<rbvars, g_running, g_scan_rate, g_seq_counter, g_boot_id,
                   g_state_mutex, g_socket, mainpc, ctl, src, cons, disk,
                   life, budget>>

\* after the loop: stop the scan if active, producer_done = true, signal
Prod_Final ==
    /\ prod.pc = "final"
    /\ src' = IF prod.scan_active THEN stopped(src) ELSE src
    /\ rb' = [rb EXCEPT !.producer_done = TRUE]
    /\ prod' = [prod EXCEPT !.pc = "exit"]
    /\ UNCHANGED <<wcount, rbghost, globals, mainpc, ctl, cons, disk, life,
                   budget>>

\* ------------------------------------------------------ persistence writer
\* the two names write_chunk_file builds in g_output_dir
filename_part(boot, seq_start) == <<"chunk_", seq_start, "_.bin.part">>
filename_final(boot, seq_start) == <<"chunk_", seq_start, "_.bin">>

IsPart(name) == name[3] = "_.bin.part"

Put(f, name, content) ==
    [n \in (DOMAIN f) \cup {name} |-> IF n = name THEN content ELSE f[n]]
Remove(f, name) == [n \in (DOMAIN f) \ {name} |-> f[n]]

\* fopen(filename_part, "wb"): the file exists and is empty
EmptyFile(boot) == [header |-> <<>>, payload |-> <<>>, writer |-> boot]

\* the header write_chunk_file writes (the two timestamps are one time(NULL))
chunk_header(boot, seq_start, sample_count, actual_rate) ==
    [magic |-> "SDAT", version |-> VERSION, device_id |-> 0,
     boot_id |-> boot, seq_start |-> seq_start,
     sample_rate_hz |-> actual_rate \div RateScale,
     record_size |-> RECORD_SIZE, sample_count |-> sample_count,
     sensor_time_start |-> "now", sensor_time_end |-> "now",
     payload_crc32 |-> 0]

\* g_seq_counter after write_chunk_file returned result for a full chunk
counter_after_chunk_mut(counter, result, n) == counter + n
counter_after_chunk(counter, result, n) ==
    IF result = 0 THEN counter + n ELSE counter

\* g_seq_counter after the flush of the last, short chunk
counter_after_flush(counter, result, n) == counter + n

\* samples_per_chunk = (uint32_t)(current_rate * CHUNK_DURATION_SEC)
samples_per_chunk_of_mut(rate) == rate \div RateScale
samples_per_chunk_of(rate) == (rate * CHUNK_DURATION_SEC) \div RateScale

\* --------------------------------------------------------------- consumer
\* while (g_running || ring_buffer_available(&g_ring_buffer) > 0)
Cons_Loop ==
    /\ cons.pc = "top"
    /\ cons' = [cons EXCEPT !.pc =
                  IF g_running \/ ring_buffer_available(rb) > 0
                  THEN "snap" ELSE "flush"]
    /\ UNCHANGED <<rbvars, globals, mainpc, ctl, prod, src, disk, life, budget>>

\* the snapshot under g_state_mutex, the re-sizing of the chunk buffer when
\* the rate changed, and the decision to read
resize_needed(c, rate) == rate # c.current_rate \/ ~c.has_buffer

\* the re-sizing: the new rate and chunk length, the old buffer freed and a
\* new one allocated, samples_collected = 0
resize_chunk_mut(c, rate) ==
    [c EXCEPT !.current_rate = rate,
              !.samples_per_chunk = samples_per_chunk_of(rate),
              !.has_buffer = TRUE]
resize_chunk(c, rate) ==
    [c EXCEPT !.current_rate = rate,
              !.samples_per_chunk = samples_per_chunk_of(rate),
              !.has_buffer = TRUE,
              !.chunk_buffer = <<>>,
              !.samples_collected = 0]

Cons_Snapshot ==
    /\ cons.pc = "snap"
    /\ g_state_mutex = "none"
    /\ LET resize == resize_needed(cons, g_scan_rate)
           c1 == IF resize THEN resize_chunk(cons, g_scan_rate) ELSE cons
           freed == IF resize
                    THEN {cons.chunk_buffer[i] : i \in DOMAIN cons.chunk_buffer}
                    ELSE {}
       IN  cons' = [c1 EXCEPT
                !.requested_rate = g_scan_rate,
                !.should_capture = g_capture_enabled,
                !.discarded = @ \cup freed,
                !.pc = IF g_capture_enabled \/ c1.samples_collected > 0
                       THEN "read" ELSE "top"]
    /\ UNCHANGED <<rbvars, globals, mainpc, ctl, prod, src, disk, life, budget>>

\* the number of bytes the consumer asks ring_buffer_read for
needed_bytes_mut(c) == c.samples_per_chunk - c.samples_collected
needed_bytes(c) == (c.samples_per_chunk - c.samples_collected) * RECORD_SIZE

\* ring_buffer_read into the tail of the chunk buffer (it blocks while the
\* ring is empty and producer_done is unset); a full chunk goes to
\* write_chunk_file
Cons_Read ==
    /\ cons.pc = "read"
    /\ ~read_must_wait(rb)
    /\ LET x == ring_buffer_read(rb, needed_bytes(cons))
           collected == cons.samples_collected + (x.ret \div RECORD_SIZE)
           kept == SubSeq(cons.chunk_buffer, 1,
                          cons.samples_collected * RECORD_SIZE)
           full == collected >= cons.samples_per_chunk
       IN  /\ rb' = x.rb
           /\ cons' = [cons EXCEPT
                    !.chunk_buffer = kept \o x.data,
                    !.samples_collected = collected,
                    !.final = FALSE,
                    !.seq_start = IF full THEN g_seq_counter ELSE @,
                    !.sample_count = IF full THEN cons.samples_per_chunk ELSE @,
                    !.calls = IF full THEN @ + 1 ELSE @,
                    !.pc = IF full THEN "open" ELSE "top"]
    /\ UNCHANGED <<wcount, rbghost, globals, mainpc, ctl, prod, src, disk,
                   life, budget>>

\* the sample count the final flush hands to write_chunk_file
flush_sample_count_mut(c) == c.samples_per_chunk
flush_sample_count(c) == c.samples_collected

\* the first n samples of the chunk buffer as write_chunk_file reads them;
\* a byte behind the samples collected is whatever malloc left there (0)
buffer_bytes(c, n) ==
    [i \in 1..(n * RECORD_SIZE) |->
        IF i <= Len(c.chunk_buffer) THEN c.chunk_buffer[i] ELSE 0]

\* after the loop: a non-empty partial chunk goes to write_chunk_file
Cons_Flush ==
    /\ cons.pc = "flush"
    /\ IF cons.has_buffer /\ cons.samples_collected > 0
       THEN cons' = [cons EXCEPT !.pc = "open", !.final = TRUE,
                                 !.calls = @ + 1,
                                 !.seq_start = g_seq_counter,
                                 !.sample_count = flush_sample_count(cons)]
       ELSE cons' = [cons EXCEPT !.pc = "exit"]
    /\ UNCHANGED <<rbvars, globals, mainpc, ctl, prod, src, disk, life, budget>>

\* what the consumer does once write_chunk_file has returned result
CommitReturns(result) ==
    /\ g_seq_counter' =
          IF cons.final
          THEN counter_after_flush(g_seq_counter, result,
                                   cons.samples_collected)
          ELSE counter_after_chunk(g_seq_counter, result,
                                   cons.samples_per_chunk)
    /\ cons' = [cons EXCEPT !.pc = IF cons.final THEN "exit" ELSE "top",
                            !.samples_collected = IF cons.final THEN @ ELSE 0,
                            !.chunk_buffer = IF cons.final THEN @ ELSE <<>>]
    /\ commits' =
          IF result = 0
          THEN Append(commits,
                      [life |-> life, boot_id |-> g_boot_id,
                       name |-> filename_final(g_boot_id, cons.seq_start),
                       seq_start |-> cons.seq_start,
                       sample_count |-> cons.sample_count,
                       rate |-> cons.current_rate,
                       call |-> cons.calls,
                       final |-> cons.final])
          ELSE commits

\* write_chunk_file: fopen(filename_part, "wb")
Cons_Open(ok) ==
    /\ cons.pc = "open"
    /\ IF ok
       THEN /\ files' = Put(files, filename_part(g_boot_id, cons.seq_start),
                            EmptyFile(g_boot_id))
            /\ cons' = [cons EXCEPT !.pc = "write"]
            /\ UNCHANGED <<g_seq_counter, commits, budget>>
       ELSE /\ budget.faults > 0
            /\ budget' = [budget EXCEPT !.faults = @ - 1]
            /\ CommitReturns(-1)
            /\ UNCHANGED files
    /\ UNCHANGED <<rbvars, g_running, g_capture_enabled, g_scan_rate,
                   g_boot_id, g_state_mutex, g_socket, mainpc, ctl, prod,
                   src, life>>

\* write_chunk_file: the fwrite calls and fclose, none of whose results is
\* looked at.  io_ok: every byte reached the file.  Otherwise (I/O error,
\* disk full) written is the number of whole records of the payload that
\* reached the file, -1 when not even the header did
Cons_Write(io_ok, written) ==
    /\ cons.pc = "write"
    /\ IF io_ok THEN written = cons.sample_count
       ELSE budget.faults > 0 /\ written < cons.sample_count
    /\ LET bytes == buffer_bytes(cons, cons.sample_count)
           hdr == chunk_header(g_boot_id, cons.seq_start, cons.sample_count,
                               cons.current_rate)
           content ==
               IF io_ok
               THEN [header |-> <<hdr>>, payload |-> bytes,
                     writer |-> g_boot_id]
               ELSE IF written = -1
               THEN EmptyFile(g_boot_id)
               ELSE [header |-> <<hdr>>,
                     payload |-> SubSeq(bytes, 1, written * RECORD_SIZE),
                     writer |-> g_boot_id]
       IN  files' = Put(files, filename_part(g_boot_id, cons.seq_start),
                        content)
    /\ budget' = IF io_ok THEN budget
                 ELSE [budget EXCEPT !.faults = @ - 1]
    /\ cons' = [cons EXCEPT !.pc = "rename"]
    /\ UNCHANGED <<rbvars, globals, mainpc, ctl, prod, src, commits, life>>

\* write_chunk_file: rename(filename_part, filename_final), or unlink of the
\* .part file when the rename fails; then the consumer's bookkeeping
Cons_Rename(ok) ==
    /\ cons.pc = "rename"
    /\ LET part == filename_part(g_boot_id, cons.seq_start)
           final == filename_final(g_boot_id, cons.seq_start)
       IN  IF ok
           THEN /\ files' = Put(Remove(files, part), final, files[part])
                /\ CommitReturns(0)
                /\ UNCHANGED budget
           ELSE /\ budget.faults > 0
                /\ budget' = [budget EXCEPT !.faults = @ - 1]
                /\ files' = Remove(files, part)
                /\ CommitReturns(-1)
    /\ UNCHANGED <<rbvars, g_running, g_capture_enabled, g_scan_rate,
                   g_boot_id, g_state_mutex, g_socket, mainpc, ctl, prod,
                   src, life>>

\* --------------------------------------------------------- specifications
\* one process lifetime, from "=== Ready ===" to the end of main
Init ==
    /\ ProcessStart(1, RING_BUFFER_SIZE, 1,
                    [cmds |-> MaxCmds, commands |-> SpecCommands,
                     faults |-> MaxFaults, samples |-> MaxSamples,
                     lives |-> 0])
    /\ files = <<>>
    /\ commits = <<>>

\* everything but the arrival and the handling of commands
NextRun ==
    \/ Ctl_Exit
    \/ Main_Signal
    \/ Main_Disable
    \/ Main_Join
    \/ Prod_Loop
    \/ Prod_Snapshot
    \/ \E ok \in BOOLEAN, rok \in BOOLEAN, n \in 0..MaxBatch :
          Prod_Body(ok, rok, n)
    \/ Prod_Disable
    \/ Prod_Final
    \/ Cons_Loop
    \/ Cons_Snapshot
    \/ Cons_Read
    \/ Cons_Flush
    \/ \E ok \in BOOLEAN : Cons_Open(ok)
    \/ \E io_ok \in BOOLEAN, w \in (-1)..cons.sample_count :
          Cons_Write(io_ok, w)
    \/ \E ok \in BOOLEAN : Cons_Rename(ok)

NextCore ==
    \/ \E c \in budget.commands : Ctl_Accept(c)
    \/ Ctl_Handle
    \/ NextRun

Next ==
    \/ NextCore
    \/ Ctl_Status
    \/ \E o \in RelockOutcomes : Ctl_SendStatus(o)

Spec == Init /\ [][Next]_vars

\* The process with acquisition switched on: the operator has sent
\* "SET_RATE 0.5" and "START", and control_thread has handled both before
\* producer_thread and consumer_thread ran for the first time.  One more
\* command may follow: the rate change "SET_RATE 1".
AcquisitionOn(rate, bud) ==
    /\ rb = init_ring_buffer(RING_BUFFER_SIZE)
    /\ wcount = 0
    /\ readLog = <<>>
    /\ runStart = 0
    /\ lastOp = NoOp
    /\ rd = [pc |-> "idle", len |-> 0, wAtCall |-> 0]
    /\ g_running = TRUE
    /\ g_capture_enabled = TRUE
    /\ g_scan_rate = rate
    /\ g_seq_counter = 0
    /\ g_boot_id = 1
    /\ g_state_mutex = "none"
    /\ g_socket = "open"
    /\ mainpc = "sigwait"
    /\ ctl = [ctl_start EXCEPT
                !.cmd = "START",
                !.prev = Cmd("START"),
                !.reply = [text |-> <<"OK: START\n">>, sent |-> <<9>>]]
    /\ prod = prod_start
    /\ src = src_start
    /\ cons = cons_start
    /\ life = 1
    /\ budget = bud
    /\ files = <<>>
    /\ commits = <<>>

InitSeq ==
    AcquisitionOn(RateScale \div 2,
                  [cmds |-> SeqCmds, commands |-> SeqCommands,
                   faults |-> SeqFaults, samples |-> SeqSamples, lives |-> 0])

SpecSeq == InitSeq /\ [][NextCore]_vars

\* One chunk: acquisition is on at 1 Hz (the operator has sent "SET_RATE 1"
\* and "START" before the threads ran) and no command follows; the source
\* delivers at most OneSamples samples
InitOne ==
    AcquisitionOn(RateScale,
                  [cmds |-> 0, commands |-> {},
                   faults |-> OneFaults, samples |-> OneSamples, lives |-> 0])

SpecOne == InitOne /\ [][NextRun]_vars

\* The four threads are scheduled fairly: a thread that can take its next
\* step eventually takes it.  The arrival of a command and of the signal are
\* the environment's and are not forced.
CtlStep ==
    Ctl_Handle \/ Ctl_Status \/ (\E o \in RelockOutcomes : Ctl_SendStatus(o))
      \/ Ctl_Exit
MainStep == Main_Disable \/ Main_Join
ProdStep ==
    Prod_Loop \/ Prod_Snapshot \/ Prod_Disable \/ Prod_Final
      \/ (\E ok \in BOOLEAN, rok \in BOOLEAN, n \in 0..MaxBatch :
             Prod_Body(ok, rok, n))
ConsStep ==
    Cons_Loop \/ Cons_Snapshot \/ Cons_Read \/ Cons_Flush
      \/ (\E ok \in BOOLEAN : Cons_Open(ok))
      \/ (\E io_ok \in BOOLEAN, w \in (-1)..cons.sample_count :
             Cons_Write(io_ok, w))
      \/ (\E ok \in BOOLEAN : Cons_Rename(ok))
ThreadsFair ==
    /\ WF_vars(CtlStep)
    /\ WF_vars(MainStep)
    /\ WF_vars(ProdStep)
    /\ WF_vars(ConsStep)

FairSpecOne == InitOne /\ [][NextRun]_vars /\ ThreadsFair

\* A rate change in mid-chunk: acquisition is on at 1 Hz (2 samples per
\* chunk) and the operator may send "SET_RATE 0.5"
RateCommands == {SetRate(RateScale \div 2)}
InitRate ==
    AcquisitionOn(RateScale,
                  [cmds |-> RateCmds, commands |-> RateCommands,
                   faults |-> RateFaults, samples |-> RateSamples,
                   lives |-> 0])

SpecRate == InitRate /\ [][NextCore]_vars

\* The same with the rate of every sample on record: acquisition is on at
\* 1 Hz and the operator may send "SET_RATE 0.5"
InitLabel ==
    AcquisitionOn(RateScale,
                  [cmds |-> LabelCmds, commands |-> RateCommands,
                   faults |-> LabelFaults, samples |-> LabelSamples,
                   lives |-> 0, trace |-> TRUE])

SpecLabel == InitLabel /\ [][NextCore]_vars

\* Acquisition control: the operator's START, STOP and SET_RATE, the control
\* thread, the producer with its source, and the shutdown request of main;
\* nothing is taken from the ring
AcqCommands ==
    {Cmd("START"), Cmd("STOP"), SetRate(RateScale \div 2),
     SetRate(250 * RateScale)}
InitAcq ==
    /\ ProcessStart(1, RING_BUFFER_SIZE, 1,
                    [cmds |-> AcqCmds, commands |-> AcqCommands,
                     faults |-> AcqFaults, samples |-> AcqSamples,
                     lives |-> 0])
    /\ files = <<>>
    /\ commits = <<>>

NextAcq ==
    \/ \E c \in budget.commands : Ctl_Accept(c)
    \/ Ctl_Handle
    \/ Ctl_Exit
    \/ Main_Signal
    \/ Main_Disable
    \/ Prod_Loop
    \/ Prod_Snapshot
    \/ \E ok \in BOOLEAN, rok \in BOOLEAN, n \in 0..MaxBatch :
          Prod_Body(ok, rok, n)
    \/ Prod_Disable
    \/ Prod_Final

SpecAcq == InitAcq /\ [][NextAcq]_vars

\* the same with the control thread, main and the producer scheduled fairly
AcqFair == WF_vars(CtlStep) /\ WF_vars(MainStep) /\ WF_vars(ProdStep)
FairSpecAcq == InitAcq /\ [][NextAcq]_vars /\ AcqFair

\* The control plane: a client that types any line of CtlLines, the control
\* thread, the producer polling the control state (the source may refuse to
\* start; it delivers nothing) and the shutdown request of main
InitCtl ==
    /\ ProcessStart(1, RING_BUFFER_SIZE, 1,
                    [cmds |-> CtlCmds, commands |-> Commands,
                     faults |-> CtlFaults, samples |-> 0, lives |-> 0])
    /\ files = <<>>
    /\ commits = <<>>

NextCtl ==
    \/ \E l \in CtlLines : Ctl_Recv(l)
    \/ Ctl_Handle
    \/ Ctl_Status
    \/ \E o \in RelockOutcomes : Ctl_SendStatus(o)
    \/ Ctl_Exit
    \/ Main_Signal
    \/ Main_Disable
    \/ Prod_Loop
    \/ Prod_Snapshot
    \/ \E ok \in BOOLEAN, rok \in BOOLEAN : Prod_Body(ok, rok, 0)
    \/ Prod_Disable
    \/ Prod_Final

SpecCtl == InitCtl /\ [][NextCtl]_vars

\* Chunk lengths: the operator has sent SET_RATE with one of the rates
\* 0.25 Hz, 0.75 Hz, 1 Hz and 1.25 Hz and then START before the threads ran;
\* no command follows; the consumer calls write_chunk_file at most
\* ChunkCalls times
ChunkRates ==
    {RateScale \div 4, (3 * RateScale) \div 4, RateScale,
     (5 * RateScale) \div 4}
InitChunk ==
    \E r \in ChunkRates :
        /\ rate_ok(r)
        /\ AcquisitionOn(set_rate_value(r),
                         [cmds |-> 0, commands |-> {},
                          faults |-> ChunkFaults, samples |-> ChunkSamples,
                          lives |-> 0])

NextChunk ==
    \/ Ctl_Exit
    \/ Main_Signal
    \/ Main_Disable
    \/ Main_Join
    \/ Prod_Loop
    \/ Prod_Snapshot
    \/ \E ok \in BOOLEAN, rok \in BOOLEAN, n \in 0..MaxBatch :
          Prod_Body(ok, rok, n)
    \/ Prod_Disable
    \/ Prod_Final
    \/ Cons_Loop
    \/ Cons_Snapshot
    \/ cons.calls < ChunkCalls /\ Cons_Read
    \/ cons.calls < ChunkCalls /\ Cons_Flush
    \/ \E ok \in BOOLEAN : Cons_Open(ok)
    \/ \E io_ok \in BOOLEAN, w \in (-1)..cons.sample_count :
          Cons_Write(io_ok, w)
    \/ \E ok \in BOOLEAN : Cons_Rename(ok)

SpecChunk == InitChunk /\ [][NextChunk]_vars

\* g_state_mutex in the hands of the producer and the consumer, one step per
\* pthread_mutex_lock: thread t takes the lock when it is free, and gives it
\* back with pthread_mutex_unlock
mutex_unlock_mut(m, t) == m
mutex_unlock(m, t) == IF m = t THEN "none" ELSE m

\* producer_thread: pthread_mutex_lock(&g_state_mutex) before the snapshot
\* and before g_capture_enabled = false
Prod_LockState ==
    /\ prod.pc \in {"snap", "off_start", "off_read"}
    /\ g_state_mutex = "none"
    /\ g_state_mutex' = "producer"
    /\ prod' = [prod EXCEPT !.pc = IF prod.pc = "snap" THEN "snap_locked"
                                   ELSE IF prod.pc = "off_start"
                                   THEN "off_start_locked"
                                   ELSE "off_read_locked"]
    /\ UNCHANGED <<rbvars, g_running, g_capture_enabled, g_scan_rate,
                   g_seq_counter, g_boot_id, g_socket, mainpc, ctl, src, cons,
                   disk, life, budget>>

\* producer_thread: the snapshot and pthread_mutex_unlock
Prod_SnapshotLocked ==
    /\ prod.pc = "snap_locked"
    /\ prod' = [prod EXCEPT !.pc = "body",
                            !.should_capture = g_capture_enabled,
                            !.requested_rate = g_scan_rate]
    /\ g_state_mutex' = mutex_unlock(g_state_mutex, "producer")
    /\ UNCHANGED <<rbvars, g_running, g_capture_enabled, g_scan_rate,
                   g_seq_counter, g_boot_id, g_socket, mainpc, ctl, src, cons,
                   disk, life, budget>>

\* producer_thread: g_capture_enabled = false and pthread_mutex_unlock after
\* a failed start or a failed read; after a failed read also
\* scan_active = false
Prod_DisableLocked ==
    /\ prod.pc \in {"off_start_locked", "off_read_locked"}
    /\ g_capture_enabled' = FALSE
    /\ prod' = [prod EXCEPT !.pc = "top",
                            !.scan_active =
                                IF prod.pc = "off_read_locked" THEN FALSE
                                ELSE @]
    /\ g_state_mutex' = mutex_unlock(g_state_mutex, "producer")
    /\ UNCHANGED <<rbvars, g_running, g_scan_rate, g_seq_counter, g_boot_id,
                   g_socket, mainpc, ctl, src, cons, disk, life, budget>>

\* consumer_thread: pthread_mutex_lock(&g_state_mutex) before the snapshot
Cons_LockState ==
    /\ cons.pc = "snap"
    /\ g_state_mutex = "none"
    /\ g_state_mutex' = "consumer"
    /\ cons' = [cons EXCEPT !.pc = "snap_locked"]
    /\ UNCHANGED <<rbvars, g_running, g_capture_enabled, g_scan_rate,
                   g_seq_counter, g_boot_id, g_socket, mainpc, ctl, prod, src,
                   disk, life, budget>>

\* consumer_thread: the snapshot and pthread_mutex_unlock, then the
\* re-sizing of the chunk buffer and the decision to read
Cons_SnapshotLocked ==
    /\ cons.pc = "snap_locked"
    /\ LET resize == resize_needed(cons, g_scan_rate)
           c1 == IF resize THEN resize_chunk(cons, g_scan_rate) ELSE cons
           freed == IF resize
                    THEN {cons.chunk_buffer[i] : i \in DOMAIN cons.chunk_buffer}
                    ELSE {}
       IN  cons' = [c1 EXCEPT
                !.requested_rate = g_scan_rate,
                !.should_capture = g_capture_enabled,
                !.discarded = @ \cup freed,
                !.pc = IF g_capture_enabled \/ c1.samples_collected > 0
                       THEN "read" ELSE "top"]
    /\ g_state_mutex' = mutex_unlock(g_state_mutex, "consumer")
    /\ UNCHANGED <<rbvars, g_running, g_capture_enabled, g_scan_rate,
                   g_seq_counter, g_boot_id, g_socket, mainpc, ctl, prod, src,
                   disk, life, budget>>

\* The locks: the whole process with one operator command (START), the
\* producer and the consumer taking and releasing g_state_mutex in steps of
\* their own
LockCommands == {Cmd("START")}
InitLock ==
    /\ ProcessStart(1, RING_BUFFER_SIZE, 1,
                    [cmds |-> LockCmds, commands |-> LockCommands,
                     faults |-> LockFaults, samples |-> LockSamples,
                     lives |-> 0])
    /\ files = <<>>
    /\ commits = <<>>

NextLock ==
    \/ \E c \in budget.commands : Ctl_Accept(c)
    \/ Ctl_Handle
    \/ Ctl_Exit
    \/ Main_Signal
    \/ Main_Disable
    \/ Main_Join
    \/ Prod_Loop
    \/ Prod_LockState
    \/ Prod_SnapshotLocked
    \/ \E ok \in BOOLEAN, rok \in BOOLEAN, n \in 0..MaxBatch :
          Prod_Body(ok, rok, n)
    \/ Prod_DisableLocked
    \/ Prod_Final
    \/ Cons_Loop
    \/ Cons_LockState
    \/ Cons_SnapshotLocked
    \/ Cons_Read
    \/ Cons_Flush
    \/ \E ok \in BOOLEAN : Cons_Open(ok)
    \/ \E io_ok \in BOOLEAN, w \in (-1)..cons.sample_count :
          Cons_Write(io_ok, w)
    \/ \E ok \in BOOLEAN : Cons_Rename(ok)

SpecLock == InitLock /\ [][NextLock]_vars

\* Several process lifetimes over one output directory: when main has
\* returned the program is started again (same working directory), with a
\* new boot identity and g_seq_counter = 0; the files stay
Restart(boot) ==
    /\ mainpc = "done"
    /\ budget.lives > 0
    /\ rb' = init_ring_buffer(RING_BUFFER_SIZE)
    /\ wcount' = 0
    /\ g_running' = TRUE
    /\ g_capture_enabled' = FALSE
    /\ g_scan_rate' = DEFAULT_SCAN_RATE_HZ
    /\ g_seq_counter' = 0
    /\ g_boot_id' = boot
    /\ g_state_mutex' = "none"
    /\ g_socket' = "open"
    /\ mainpc' = "sigwait"
    /\ ctl' = ctl_start
    /\ prod' = prod_start
    /\ src' = src_start
    /\ cons' = cons_start
    /\ life' = life + 1
    /\ budget' = [budget EXCEPT !.cmds = LivesCmds, !.faults = LivesFaults,
                                !.lives = @ - 1]
    /\ UNCHANGED <<rbghost, files, commits>>

InitLives ==
    /\ ProcessStart(1, RING_BUFFER_SIZE, 1,
                    [cmds |-> LivesCmds, commands |-> LivesCommands,
                     faults |-> LivesFaults, samples |-> LivesSamples,
                     lives |-> MaxLives - 1])
    /\ files = <<>>
    /\ commits = <<>>

NextLives ==
    \/ NextCore
    \/ \E boot \in 1..MaxBootId : Restart(boot)

SpecLives == InitLives /\ [][NextLives]_vars

\* ------------------------------------------------- claims on the process
RECURSIVE SumCounts(_)
SumCounts(log) ==
    IF log = <<>> THEN 0
    ELSE log[Len(log)].sample_count + SumCounts(SubSeq(log, 1, Len(log) - 1))

\* C6: sequence contiguity.  Of two chunks committed one after the other in
\* one process lifetime, the later one's seq_start is the earlier one's
\* seq_start plus its sample_count, whatever failed or changed in between;
\* the first committed chunk has seq_start 0.
C6_SeqContiguity ==
    \A i \in 1..Len(commits) :
        commits[i].seq_start =
            IF i = 1 THEN 0
            ELSE commits[i - 1].seq_start + commits[i - 1].sample_count

\* C6 witness: two chunks committed with a failed commit between them
C6_Witness ==
    /\ Len(commits) >= 2
    /\ commits[2].call > commits[1].call + 1
    /\ commits[2].seq_start > 0

\* C7: sequence counter accounting.  g_seq_counter is the sum of
\* sample_count over the chunks committed successfully in this lifetime: a
\* failed commit leaves it unchanged, in the loop and in the final flush.
C7_CounterAccounting ==
    cons.pc \in {"top", "snap", "read", "flush", "exit"}
    => g_seq_counter = SumCounts(commits)

\* a complete chunk file: the whole header, and sample_count records
Complete(f) ==
    /\ f.header # <<>>
    /\ Len(f.payload) = f.header[1].sample_count * f.header[1].record_size
    /\ f.header[1].record_size = RECORD_SIZE

\* C8: atomic commit.  Every file under a final (non-.part) name is complete.
C8_FinalFilesComplete ==
    \A n \in DOMAIN files : ~IsPart(n) => Complete(files[n])

\* C8, second half: a final name appears, or changes content, only by the
\* rename of a closed .part file
C8_OnlyByRenameStep ==
    \A n \in DOMAIN files' :
        (~IsPart(n) /\ (n \notin DOMAIN files \/ files'[n] # files[n]))
        => \E p \in DOMAIN files :
              /\ IsPart(p)
              /\ p \notin DOMAIN files'
              /\ files'[n] = files[p]
              /\ cons.pc = "rename"
C8_OnlyByRename == [][C8_OnlyByRenameStep]_vars

\* C9: no collision across restarts.  Two commits made under different boot
\* identities never have the same final name, and the file of every commit
\* is still the one written under that commit's boot identity.
C9_NoCollisionAcrossBoots ==
    /\ \A i, j \in 1..Len(commits) :
          commits[i].boot_id # commits[j].boot_id
          => commits[i].name # commits[j].name
    /\ \A i \in 1..Len(commits) :
          /\ commits[i].name \in DOMAIN files
          /\ files[commits[i].name].writer = commits[i].boot_id

\* C10: SET_RATE then STATUS.  Once SET_RATE v (0 < v <= 100000) is handled,
\* g_scan_rate = v; a STATUS that follows completes, and its reply reports v.
C10_SetRateThenStatus ==
    \A a \in RateArgs :
      (a # <<>> /\ rate_ok(a[1]))
      => /\ (ctl.prev = <<"SET_RATE", a>>)
              => /\ g_scan_rate = a[1]
                 /\ ctl.cmd = "STATUS" => ctl.pc # "deadlocked"
         /\ (ctl.pc = "select" /\ ctl.prev = Cmd("STATUS")
               /\ ctl.before = <<"SET_RATE", a>>)
              => /\ ctl.reply.text[1] = "STATUS: capture="
                 /\ ctl.reply.text[4] = Fmt2(a[1])
                 /\ g_scan_rate = a[1]

\* a command handle_command rejects, in the words of the protocol
Rejected(c) ==
    \/ c[1] \notin {"START", "STOP", "STATUS", "SET_RATE"}
    \/ /\ c[1] = "SET_RATE"
       /\ \/ c[2] = <<>>
          \/ c[2][1] <= 0
          \/ c[2][1] > 100000 * RateScale
ErrorTexts ==
    {"ERROR: SET_RATE requires a value\n",
     "ERROR: Invalid rate (must be > 0 and <= 100000)\n",
     "ERROR: Unknown command: "}

\* C11: rejected commands leave the control state unchanged.  Handling a
\* SET_RATE without argument or with a value <= 0 or > 100000, or an unknown
\* keyword, replies with an error and changes neither g_capture_enabled nor
\* g_scan_rate; and 0 < g_scan_rate <= 100000 in every state.
C11_RejectedStep ==
    (ctl.pc = "locked" /\ ctl'.pc = "select" /\ Rejected(<<ctl.cmd, ctl.arg>>))
    => /\ g_capture_enabled' = g_capture_enabled
       /\ g_scan_rate' = g_scan_rate
       /\ ctl'.reply.text[1] \in ErrorTexts
C11_RateInRange == g_scan_rate > 0 /\ g_scan_rate <= 100000 * RateScale
C11_RejectedUnchanged == []C11_RateInRange /\ [][C11_RejectedStep]_vars

\* C11 witness: an out-of-range SET_RATE and then an unknown keyword were
\* handled, after which the rate is still the default
C11_Witness ==
    /\ ctl.pc = "select"
    /\ ctl.prev = Cmd("RESET")
    /\ ctl.before = SetRate(MAX_RATE + 1)
    /\ ctl.reply.text[1] = "ERROR: Unknown command: "
    /\ g_scan_rate = DEFAULT_SCAN_RATE_HZ

\* START and then STOP were handled and no further command has arrived
StartThenStop ==
    /\ ctl.before = Cmd("START")
    /\ ctl.prev = Cmd("STOP")
    /\ ctl.pc \in {"select", "exit"}

\* the producer has finished an iteration whose snapshot said "do not capture"
IterationDoneNotCapturing ==
    /\ prod.pc \in {"top", "snap", "final", "exit"}
    /\ ~prod.should_capture

\* the producer is idle and the source stopped (a source whose read has
\* failed is left as the failure left it)
SourceAtRest == ~src.failed => ~src.running
ProducerIdle == ~prod.scan_active /\ SourceAtRest

\* C12: START then STOP in rapid succession.  Once both are handled and no
\* further command arrives, g_capture_enabled is false and stays false; a
\* producer iteration that ran on a "not capturing" snapshot leaves the
\* producer idle with the source stopped, and under fair scheduling the
\* producer gets there; it never starts a source that is still running.  The
\* source's start may succeed or fail in between; its reads do not fail.
C12_Safe ==
    /\ StartThenStop => ~g_capture_enabled
    /\ (StartThenStop /\ IterationDoneNotCapturing) => ProducerIdle
    /\ (StartThenStop /\ ~src.failed)
         => ~(prod.pc = "off_start" /\ src.running)
ConsumerAtRest == cons.pc \in {"top", "snap", "read", "flush", "exit"}

\* C13: single-chunk scenario.  At a constant rate of R Hz with capture
\* enabled, once the source has delivered exactly N = R x CHUNK_DURATION_SEC
\* samples, nothing has failed and the consumer has taken them all from the
\* ring, exactly one chunk file is committed: sample_count = N, seq_start = 0
\* (the counter before), payload the N samples, and g_seq_counter = N.
C13_SingleChunk ==
    LET N == (g_scan_rate \div RateScale) * CHUNK_DURATION_SEC
    IN  (/\ budget.faults = OneFaults
         /\ wcount = N * RECORD_SIZE
         /\ rb.available = 0
         /\ ConsumerAtRest)
        => /\ Len(commits) = 1
           /\ commits[1].sample_count = N
           /\ commits[1].seq_start = 0
           /\ g_seq_counter = N
           /\ DOMAIN files = {commits[1].name}
           /\ files[commits[1].name].header[1].sample_count = N
           /\ files[commits[1].name].payload = StreamBytes(0, N * RECORD_SIZE)

\* C13 witness: the N = 2 samples were delivered and committed as one chunk
\* while the process is still running
C13_Witness ==
    /\ g_running
    /\ budget.faults = OneFaults
    /\ wcount = 2 * RECORD_SIZE
    /\ rb.available = 0
    /\ cons.pc = "top"
    /\ Len(commits) = 1
    /\ commits[1].sample_count = 2

\* C14: shutdown terminates.  Once shutdown is requested (g_running cleared,
\* g_capture_enabled forced false, the socket closed: main is at its joins),
\* the three threads eventually exit and main's joins complete, the ring
\* buffer being released only after all three have exited.
C14_ShutdownTerminates ==
    /\ (mainpc = "join") ~> (mainpc = "done")
    /\ [](mainpc = "done"
            => (ctl.pc = "exit" /\ prod.pc = "exit" /\ cons.pc = "exit"))

\* the reply string of the line protocol for keyword k with argument a
ProtocolReply(k, a) ==
    CASE k = "START" -> <<"OK: START\n">>
      [] k = "STOP" -> <<"OK: STOP\n">>
      [] k = "SET_RATE" /\ a = <<>> -> <<"ERROR: SET_RATE requires a value\n">>
      [] k = "SET_RATE" /\ a # <<>> /\ (a[1] <= 0 \/ a[1] > 100000 * RateScale)
           -> <<"ERROR: Invalid rate (must be > 0 and <= 100000)\n">>
      [] k = "SET_RATE" /\ a # <<>> /\ a[1] > 0 /\ a[1] <= 100000 * RateScale
           -> <<"OK: SET_RATE ", Fmt2(a[1]), "\n">>
      [] OTHER -> <<"ERROR: Unknown command: ", k, "\n">>

\* C15: control replies follow the line protocol.  For every command but
\* STATUS, in any spelling of the keyword, the bytes sent are exactly the
\* protocol's reply string: all of it, its newline last, and nothing after.
C15_ReplyProtocol ==
    \A k \in Keywords \ {"STATUS"} :
        (ctl.pc = "select" /\ ctl.prev # <<>> /\ ctl.line \in Typed(k))
        => /\ ctl.reply.text = ProtocolReply(k, ctl.arg)
           /\ bytes_missing(ctl.reply) = 0
           /\ bytes_extra(ctl.reply) = 0

\* C16: final partial flush.  When the consumer leaves its loop with c > 0
\* samples in progress it hands one last chunk to the writer: sample_count c
\* (less than samples_per_chunk), seq_start the current g_seq_counter, payload
\* the c samples accumulated; unless the file system fails that chunk is
\* committed before the consumer exits.  With c = 0 no final chunk is written.
C16_FinalFlush ==
    LET c == cons.samples_collected
        last == commits[Len(commits)]
    IN  /\ (cons.final /\ cons.pc \in {"open", "write", "rename"})
             => /\ c > 0 /\ c < cons.samples_per_chunk
                /\ cons.sample_count = c
                /\ cons.seq_start = g_seq_counter
                /\ Len(cons.chunk_buffer) = c * RECORD_SIZE
        /\ (cons.pc = "exit" /\ c > 0 /\ budget.faults = OneFaults)
             => /\ Len(commits) > 0
                /\ last.final
                /\ last.sample_count = c
                /\ last.seq_start = SumCounts(commits) - c
                /\ files[last.name].header[1].sample_count = c
                /\ files[last.name].header[1].seq_start = last.seq_start
                /\ files[last.name].payload = cons.chunk_buffer
        /\ (cons.pc = "exit" /\ c = 0)
             => \A i \in 1..Len(commits) : ~commits[i].final

\* C16 witness: the consumer has exited after flushing a final chunk of one
\* sample that follows a full chunk
C16_Witness ==
    /\ cons.pc = "exit"
    /\ cons.samples_collected = 1
    /\ Len(commits) = 2
    /\ commits[2].final
    /\ commits[2].seq_start = 2
    /\ files[commits[2].name].payload = StreamBytes(2 * RECORD_SIZE, RECORD_SIZE)

\* C16 witness of the other case: the consumer has exited with nothing in
\* progress after a full chunk
C16_WitnessNone ==
    /\ cons.pc = "exit"
    /\ cons.samples_collected = 0
    /\ Len(commits) = 1

\* the bytes of a byte sequence
BytesOf(seq) == {seq[i] : i \in DOMAIN seq}

\* C17: a rate change discards the partial chunk.  When the consumer finds
\* at the top of an iteration that g_scan_rate differs from the rate its chunk
\* buffer was sized for, samples_collected becomes 0 and a new buffer is sized
\* for the new rate; the samples of the partial chunk are in no file and not
\* in the new chunk, and g_seq_counter is not advanced for them.
C17_DiscardStep ==
    (cons.pc = "snap" /\ cons'.pc # "snap" /\ cons.has_buffer
       /\ g_scan_rate # cons.current_rate)
    => /\ cons'.samples_collected = 0
       /\ cons'.current_rate = g_scan_rate
       /\ cons'.samples_per_chunk
             = (g_scan_rate * CHUNK_DURATION_SEC) \div RateScale
       /\ g_seq_counter' = g_seq_counter
       /\ files' = files
       /\ BytesOf(cons.chunk_buffer) \subseteq cons'.discarded
C17_DiscardedNowhere ==
    /\ BytesOf(cons.chunk_buffer) \cap cons.discarded = {}
    /\ \A n \in DOMAIN files : BytesOf(files[n].payload) \cap cons.discarded = {}
C17_RateChangeDiscards ==
    []C17_DiscardedNowhere /\ [][C17_DiscardStep]_vars

\* C17 witness: a sample of a partial chunk was discarded at a rate change
\* and a later sample has been committed in a chunk of the new rate
C17_Witness ==
    /\ cons.discarded = BytesOf(StreamBytes(0, RECORD_SIZE))
    /\ Len(commits) = 1
    /\ commits[1].seq_start = 0
    /\ commits[1].sample_count = 1
    /\ files[commits[1].name].payload = StreamBytes(RECORD_SIZE, RECORD_SIZE)

\* C18: source start failure.  When the producer attempts to start the source
\* (from idle, or again after a rate change) and the start fails, it ends the
\* iteration with scan_active = false, sets g_capture_enabled = false under
\* g_state_mutex, and neither pulls a batch nor writes to the ring.
C18_StartFailStep ==
    /\ (prod.pc = "body" /\ prod'.pc = "off_start")
         => /\ prod.should_capture
            /\ ~prod'.scan_active
            /\ rb' = rb /\ wcount' = wcount
    /\ (prod.pc = "off_start" /\ prod'.pc # "off_start")
         => /\ g_state_mutex = "none"
            /\ ~g_capture_enabled'
            /\ prod'.pc = "top"
            /\ ~prod'.scan_active
            /\ rb' = rb /\ wcount' = wcount
C18_FailedStartIdle == prod.pc = "off_start" => ~prod.scan_active
C18_StartFailure == []C18_FailedStartIdle /\ [][C18_StartFailStep]_vars

\* C18 witness: the scan ran at 120 Hz, SET_RATE 250 made the producer stop
\* it, the start at 250 Hz failed, and the iteration has ended
C18_Witness ==
    /\ prod.pc = "top"
    /\ ctl.before = Cmd("START") /\ ctl.prev = SetRate(250 * RateScale)
    /\ prod.requested_rate = 250 * RateScale
    /\ src.rate = DEFAULT_SCAN_RATE_HZ /\ ~src.running
    /\ ~prod.scan_active
    /\ ~g_capture_enabled
    /\ budget.faults = AcqFaults - 1

\* a start attempt that no hardware failure spoils
CleanStartAttempt ==
    /\ prod.pc = "body" /\ prod'.pc # "body"
    /\ prod.should_capture
    /\ ~prod.scan_active \/ prod.requested_rate # prod.current_rate
    /\ budget'.faults = budget.faults

\* C19: a source read failure is recoverable.  A non-timeout read error sends
\* the producer to idle with g_capture_enabled forced false, a timeout does
\* not; and afterwards, as at any time, a start the producer attempts succeeds
\* unless the source hardware fails: acquisition resumes on the next START.
C19_Step ==
    /\ (prod.pc = "off_read" /\ prod'.pc # "off_read")
         => (~g_capture_enabled' /\ ~prod'.scan_active /\ prod'.pc = "top")
    /\ (prod.pc = "body" /\ prod'.pc = "top" /\ prod'.scan_active)
         => g_capture_enabled' = g_capture_enabled
    /\ CleanStartAttempt
         => (prod'.scan_active /\ src'.running
               /\ src'.rate = prod.requested_rate)
C19_ReadFailureRecoverable == [][C19_Step]_vars

\* the iteration pulls a batch from the source (the read may time out or fail)
PullsBatch ==
    /\ prod.pc = "body"
    /\ prod'.pc \in {"top", "off_read"}
    /\ prod'.scan_active

\* C20: a rate change forces stop and restart.  In every iteration that pulls
\* a batch the snapshot had g_capture_enabled true and the source's running
\* scan was started at the snapshot's rate; an iteration whose snapshot rate
\* differs from the active rate while capturing pulls a batch only from a
\* scan started anew, after a stop, at the snapshot's rate.
C20_Step ==
    /\ PullsBatch
         => /\ prod.should_capture
            /\ src'.running
            /\ src'.rate = prod.requested_rate
            /\ prod'.current_rate = prod.requested_rate
    /\ (PullsBatch /\ prod.scan_active
          /\ prod.requested_rate # prod.current_rate)
         => (src'.restart /\ src'.rate # src.rate)
C20_RateChangeRestarts == [][C20_Step]_vars

\* C20 witness: the scan started at 120 Hz was stopped and started again at
\* 250 Hz, and the producer has pulled from it
C20_Witness ==
    /\ prod.pc = "top"
    /\ prod.scan_active
    /\ src.running /\ src.restart
    /\ src.rate = 250 * RateScale
    /\ prod.current_rate = 250 * RateScale
    /\ wcount > 0

\* the positions at which a thread is between its lock and its unlock of
\* g_state_mutex
ProducerLockedAt == {"snap_locked", "off_start_locked", "off_read_locked"}
ConsumerLockedAt == {"snap_locked"}

\* C21: lock discipline of producer and consumer.  The producer (consumer)
\* owns g_state_mutex only between the lock and the unlock around its copy of
\* g_capture_enabled / g_scan_rate or its g_capture_enabled = false; the step
\* it takes while it owns the lock releases it and touches neither the
\* source, nor the RingBuffer (so never the RingBuffer's lock), nor the output
\* directory, nor does it sleep.
C21_HeldOnlyToCopy ==
    /\ (g_state_mutex = "producer") <=> (prod.pc \in ProducerLockedAt)
    /\ (g_state_mutex = "consumer") <=> (cons.pc \in ConsumerLockedAt)
C21_LockedStep ==
    /\ (g_state_mutex = "producer" /\ prod' # prod)
         => /\ g_state_mutex' = "none"
            /\ UNCHANGED <<rbvars, src, disk>>
            /\ prod'.pc \in {"body", "top"}
    /\ (g_state_mutex = "consumer" /\ cons' # cons)
         => /\ g_state_mutex' = "none"
            /\ UNCHANGED <<rbvars, disk, g_seq_counter>>
            /\ cons'.pc \in {"read", "top"}
C21_LockDiscipline == []C21_HeldOnlyToCopy /\ [][C21_LockedStep]_vars

\* C21 witness: the producer owns g_state_mutex (about to clear
\* g_capture_enabled after a failed read) while the consumer is blocked in
\* ring_buffer_read
C21_Witness ==
    /\ g_state_mutex = "producer"
    /\ prod.pc = "off_read_locked"
    /\ cons.pc = "read"
    /\ read_must_wait(rb)

\* C21 witness, the other way round: the consumer owns g_state_mutex while
\* the producer is about to read from the running scan
C21_WitnessConsumer ==
    /\ g_state_mutex = "consumer"
    /\ prod.pc = "body"
    /\ prod.scan_active
    /\ src.running

\* the producer's iteration wrote a batch to the RingBuffer
ProducerWrites == prod.pc = "body" /\ wcount' > wcount

\* C22: overflow is reported.  Whenever a write of the producer evicts k > 0
\* unread bytes, the warning the producer logs for that write carries k.
C22_Step ==
    ProducerWrites
    => LET len == wcount' - wcount
           k == rb.available + len - rb'.available
       IN  k > 0 => prod'.warning = <<k>>
C22_OverflowReported == [][C22_Step]_vars

\* round(rate x CHUNK_DURATION_SEC), halves away from zero, for a rate in
\* 1/RateScale Hz
RoundedChunkLength(rate) ==
    (2 * rate * CHUNK_DURATION_SEC + RateScale) \div (2 * RateScale)

\* C23: chunk length.  The nominal chunk length the consumer uses is
\* round(rate x 2) for the rate it runs at, and so is the sample_count of
\* every full chunk it commits.
C23_ChunkLength ==
    /\ cons.has_buffer
         => cons.samples_per_chunk = RoundedChunkLength(cons.current_rate)
    /\ \A i \in 1..Len(commits) :
          ~commits[i].final
          => commits[i].sample_count = RoundedChunkLength(commits[i].rate)

\* the length the consumer computes: rate x 2 with the fraction cut off
C23_TruncatedLength ==
    /\ cons.has_buffer
         => cons.samples_per_chunk =
               (cons.current_rate * CHUNK_DURATION_SEC) \div RateScale
    /\ \A i \in 1..Len(commits) :
          ~commits[i].final
          => commits[i].sample_count =
                (commits[i].rate * CHUNK_DURATION_SEC) \div RateScale

\* C24: the control path never deadlocks on g_state_mutex.  The control
\* thread never calls pthread_mutex_lock on g_state_mutex while it owns it,
\* never blocks for ever with the lock in its hands, and does not own the
\* lock once the handling of a command has ended (so the snapshots of the
\* producer and the consumer, and the next command, find it free again).
C24_NoControlDeadlock ==
    /\ ctl.pc = "send_status" => g_state_mutex # "control"
    /\ ctl.pc # "deadlocked"
    /\ ctl.pc \in {"select", "exit"} => g_state_mutex # "control"

\* the same for the commands other than STATUS
C24_OtherCommands ==
    ctl.cmd # "STATUS" => C24_NoControlDeadlock

\* the deadlock itself: the control thread blocked for ever in send_status
\* with g_state_mutex locked, the producer and the consumer waiting for it
C24_Deadlocked ==
    /\ ctl.pc = "deadlocked"
    /\ g_state_mutex = "control"
    /\ prod.pc = "snap"
    /\ cons.pc = "snap"

\* the sample a byte of the stream belongs to, from 1
SampleOf(byte) == ((byte - 1) \div RECORD_SIZE) + 1

\* sample_rate_hz of a header written for a chunk at this rate
header_rate(rate) == rate \div RateScale

\* C25: rate label purity.  Every sample in the payload of a committed chunk
\* file was acquired while the source ran at the rate the file's header
\* records.
C25_RateLabelPurity ==
    \A n \in DOMAIN files :
        (~IsPart(n) /\ files[n].header # <<>>)
        => \A i \in DOMAIN files[n].payload :
              LET byte == files[n].payload[i]
              IN  byte > 0
                  => header_rate(src.log[SampleOf(byte)])
                        = files[n].header[1].sample_rate_hz

\* the same for the chunks committed before any rate change was handled
C25_PureBeforeRateChange ==
    ctl.prev = Cmd("START") => C25_RateLabelPurity

\* a run of bytes made of whole samples: the byte at an offset that is a
\* multiple of RECORD_SIZE is the first byte of a sample, and so on
WholeSamples(bytes) ==
    /\ Len(bytes) % RECORD_SIZE = 0
    /\ \A i \in DOMAIN bytes : bytes[i] % RECORD_SIZE = i % RECORD_SIZE

\* C26: sample alignment.  The RingBuffer's available count and its cursors
\* are multiples of 8, its unread content is a run of whole samples (an
\* eviction never takes part of a sample), what the consumer has read so far
\* is a whole number of samples, samples_collected of them, and
\* samples_collected never exceeds samples_per_chunk.
C26_SampleAlignment ==
    /\ rb.available % RECORD_SIZE = 0
    /\ rb.read_pos % RECORD_SIZE = 0
    /\ rb.write_pos % RECORD_SIZE = 0
    /\ WholeSamples(Unread(rb))
    /\ WholeSamples(cons.chunk_buffer)
    /\ Len(cons.chunk_buffer) = cons.samples_collected * RECORD_SIZE
    /\ cons.samples_collected <= cons.samples_per_chunk

\* C26 witness: the first sample was evicted whole, the read cursor has
\* wrapped, and the consumer has read samples 2 and 3 in one piece and
\* committed them
C26_Witness ==
    /\ Len(commits) = 1
    /\ files[commits[1].name].payload
          = StreamBytes(RECORD_SIZE, 2 * RECORD_SIZE)
    /\ rb.available = 0
    /\ rb.read_pos = RECORD_SIZE

\* C26 witness: a partial read, one sample where two were asked for
C26_WitnessPartial ==
    /\ cons.samples_collected = 1
    /\ cons.samples_per_chunk = 2
    /\ cons.chunk_buffer = StreamBytes(0, RECORD_SIZE)
    /\ rb.available = RECORD_SIZE

\* C27: the producer's state agrees with the source.  At the top of an
\* iteration scan_active is false exactly when the source is stopped, and
\* mcc118_a_in_scan_start is never called on a source that is still running
\* (a start that fails leaves a stopped source behind).
C27_ProducerAgreesWithSource ==
    /\ prod.pc = "top" => (prod.scan_active <=> src.running)
    /\ prod.pc = "off_start" => ~src.running

\* the same as long as no read of the scan has failed
C27_AgreesUnlessReadFailed ==
    ~src.failed => C27_ProducerAgreesWithSource

\* the consumer's iteration hands a full chunk to write_chunk_file
CommitsFullChunk == cons.pc = "read" /\ cons'.pc = "open"

\* C28: no empty chunk, and consumer progress.  The nominal chunk length is
\* at least 1 at every accepted rate, every committed chunk holds at least
\* one sample, and an iteration that commits a full chunk has taken at least
\* one sample from the RingBuffer.
C28_ChunkNotEmpty ==
    /\ cons.has_buffer => cons.samples_per_chunk >= 1
    /\ \A i \in 1..Len(commits) : commits[i].sample_count >= 1
C28_ProgressStep ==
    CommitsFullChunk => rb'.available + RECORD_SIZE <= rb.available
C28_NoEmptyChunk == []C28_ChunkNotEmpty /\ [][C28_ProgressStep]_vars

\* the same at the rates from 0.5 Hz on
C28_FromHalfHertz ==
    g_scan_rate * CHUNK_DURATION_SEC >= RateScale => C28_ChunkNotEmpty

\* the chunk of length 0 committed over and over: ChunkCalls commits under
\* one name, nothing read from the RingBuffer
C28_EmptyChunks ==
    /\ Len(commits) = ChunkCalls
    /\ \A i \in 1..Len(commits) :
          commits[i].sample_count = 0 /\ commits[i].seq_start = 0
    /\ rb.available > 0

=============================================================================
